---- MODULE Spec2Model ----
(***************************************************************************)
(* A model of csams/rhat2: rule_analysis.py (the archive list loader, the *)
(* per-archive evaluator, the process-local caches, the distributed map   *)
(* stage, the aggregator and main) and driver.py (the cluster bootstrap). *)
(*                                                                         *)
(* Python strings that the code takes apart (the input file, its lines)   *)
(* are sequences of one-character strings.  Python's None is the value    *)
(* None below; the text 'None' that astype(str) makes of it is StrNone.   *)
(***************************************************************************)
EXTENDS Integers, Sequences, FiniteSets, TLC

VARIABLES
    \* Spec: one run of a script
    script,     \* "rule_analysis" or "driver"
    pc,         \* the statement the coordinating process is at
    cluster,    \* "none", "open" or "closed"
    client,     \* "none", "open" or "closed"
    workers,    \* the size of the worker pool
    plugin,     \* args.plugin, <<>> when --plugin is absent
    rule_func,  \* what dr.get_component(args.plugin) returned
    archives,   \* what load_archives returned
    part_size,  \* run_rule's part_size
    tasks,      \* one task per partition of the bag
    report,     \* what analyze returned
    stdout,     \* what was printed
    exc,        \* the exception that ended the run, or None
    \* SpecProc: the module state of one process
    role,       \* "coordinator" (run_rule, analyze) or "worker" (the evaluator)
    LOADED,     \* LOADED[0]
    DEP_CACHE,  \* rule function -> (graph, boolean dependencies)
    built,      \* graph objects built so far in the process
    builds,     \* rule -> how often _get_deps ran for it, by caller
    call,       \* the last call made in the process, and what it returned
    ncalls,     \* calls made so far
    \* SpecLoad: load_archives alone
    text,       \* the content of the input file
    loaded,     \* whether load_archives has returned
    lines       \* what load_archives returned

runVars == <<script, pc, cluster, client, workers, plugin, rule_func, archives,
             part_size, tasks, report, stdout, exc>>
procVars == <<role, LOADED, DEP_CACHE, built, builds, call, ncalls>>
loadVars == <<text, loaded, lines>>
vars == <<runVars, procVars, loadVars>>

\* ------------------------------------------------------------------ bounds
MaxFileLen == 4
MaxArchives == 2
MaxPartSize == 2
MaxCalls == 3

\* ----------------------------------------------------------------- strings
None == "None"
NL == "\n"
Whitespace == {" ", "\t", NL}
FileAlphabet == {"a", " ", NL}

SeqsUpTo(S, n) == UNION {[1..k -> S] : k \in 0..n}

RECURSIVE Flatten(_)
Flatten(ss) == IF ss = <<>> THEN <<>> ELSE Head(ss) \o Flatten(Tail(ss))

\* Index of the first line break of s, or Len(s) when it holds none.
LineEnd(s) ==
    IF \E i \in 1..Len(s) : s[i] = NL
    THEN CHOOSE i \in 1..Len(s) : s[i] = NL /\ \A j \in 1..(i - 1) : s[j] # NL
    ELSE Len(s)

\* `for l in f`: the lines of an open text file, each with its line break.
RECURSIVE FileLines(_)
FileLines(s) ==
    IF s = <<>> THEN <<>>
    ELSE <<SubSeq(s, 1, LineEnd(s))>> \o FileLines(SubSeq(s, LineEnd(s) + 1, Len(s)))

\* str.rstrip(): the string without its trailing whitespace.
RECURSIVE rstrip(_)
rstrip(l) ==
    IF l # <<>> /\ l[Len(l)] \in Whitespace
    THEN rstrip(SubSeq(l, 1, Len(l) - 1))
    ELSE l

\* A loader that forgets to strip: load_archives gone wrong.
load_archives_raw(path_text) == FileLines(path_text)

load_archives(path_text) ==
    [i \in 1..Len(FileLines(path_text)) |-> rstrip(FileLines(path_text)[i])]

\* -------------------------------------------------------------- components
(* A component of the plugin framework: its module, its __name__ and the   *)
(* decorator type it was registered with.  dr.get_name(c) is module.name,  *)
(* c.__name__ is name alone, so two components of different modules may    *)
(* share a __name__.                                                       *)
Comp(m, n, t) == [module |-> m, name |-> n, type |-> t]

RedHatRelease == Comp("insights.combiners.redhat_release", "RedHatRelease", "combiner")
Uname == Comp("insights.parsers.uname", "Uname", "parser")
CondX == Comp("rules.r1", "X", "condition")
CondY == Comp("rules.r1", "Y", "condition")
Rule1 == Comp("rules.r1", "report", "rule")
IncZ == Comp("rules.r2", "Z", "incident")
Rule2 == Comp("rules.r2", "report", "rule")
SharedX == Comp("rules.shared", "X", "condition")
Rule3 == Comp("rules.r3", "report", "rule")
NoComponent == Comp(None, None, "NoneType")

Rules == {Rule1, Rule2, Rule3}

\* The registry: the keys of dr.get_dependency_graph(c), in the order the
\* walk inserts them (a dict keeps insertion order).
get_dependency_graph(c) ==
    CASE c = Rule1 -> <<Rule1, CondY, CondX, Uname>>
      [] c = Rule2 -> <<Rule2, IncZ>>
      [] c = Rule3 -> <<Rule3, SharedX, CondX, Uname>>
      [] c = RedHatRelease -> <<RedHatRelease, Uname>>
      [] OTHER -> <<c>>

\* sorted(..., key=dr.get_name) and sorted(names): the qualified names, and
\* the column names, in lexicographic order.
QualifiedOrder == <<CondX, CondY, IncZ, SharedX>>
ColumnOrder == <<"X", "Y", "Z">>

get_name(c) == IF c = NoComponent THEN <<"None">> ELSE <<c.module, c.name>>

is_type(c, t) == c # NoComponent /\ c.type = t

InSeq(x, s) == \E i \in 1..Len(s) : s[i] = x

\* dict.update: the keys of g keep their place, the new keys of h follow.
DictUpdateKeys(g, h) ==
    LET New(c) == ~InSeq(c, g) IN g \o SelectSeq(h, New)

\* _get_deps: the graph of the rule joined with that of RedHatRelease, and
\* the conditions and incidents of it in graph order.
BoolDep(c) == is_type(c, "condition") \/ is_type(c, "incident")

GraphOf(rule) ==
    DictUpdateKeys(get_dependency_graph(rule), get_dependency_graph(RedHatRelease))

DepsOf(rule) == SelectSeq(GraphOf(rule), BoolDep)

Range(s) == {s[i] : i \in 1..Len(s)}

\* ------------------------------------------------------ per-archive evaluator
PyTrue == "True"
PyFalse == "False"
StrNone == "'None'"

\* What dr.run leaves in the broker for one archive: a value per check (None
\* when the check did not run), the rule's response and the release.
NoResult == [type |-> "NoneType", key |-> None]
NoRelease == [present |-> FALSE, major |-> 0, minor |-> 0]

Truthy(v) == v \in {PyTrue, "nonempty"}

\* isinstance(rule_result, make_response): make_fail is the subclass of
\* make_response that rules return; make_pass and make_info are not.
IsMakeResponse(rr) == rr.type \in {"make_response", "make_fail"}

DictSet(d, k, v) == [x \in (DOMAIN d) \cup {k} |-> IF x = k THEN v ELSE d[x]]

EmptyDict == [x \in {} |-> None]

\* hits[c.__name__] = ... for each c of cs in turn.
RECURSIVE HitsLoop(_, _, _)
HitsLoop(hits, cs, results) ==
    IF cs = <<>> THEN hits
    ELSE HitsLoop(
            DictSet(hits, Head(cs).name,
                    IF results[Head(cs)] # None
                    THEN (IF Truthy(results[Head(cs)]) THEN PyTrue ELSE PyFalse)
                    ELSE None),
            Tail(cs), results)

extract_hits(components, results) ==
    LET Selected(c) == c \in components
    IN HitsLoop(EmptyDict, SelectSeq(QualifiedOrder, Selected), results)

\* The body of get_rule_hit_info once the archive is extracted and the graph
\* has run: lines 82-93.
HitInfo(archive, rule, bool_deps, out) ==
    LET h0 == extract_hits(Range(bool_deps), out.checks)
        rr == out.rule_result
        h1 == DictSet(h0, "archive", archive)
        h2 == DictSet(h1, "key", IF rr # NoResult THEN rr.key ELSE None)
        h3 == DictSet(h2, "type", IF rr # NoResult THEN rr.type ELSE None)
        h4 == DictSet(h3, "make_fail",
                      IF rr # NoResult /\ IsMakeResponse(rr) THEN PyTrue ELSE PyFalse)
        h5 == DictSet(h4, "major", IF out.rhr.present THEN out.rhr.major ELSE -1)
    IN DictSet(h5, "minor", IF out.rhr.present THEN out.rhr.minor ELSE -1)

\* ------------------------------------------------- distributed map stage
DefaultPartSize == 10

Min(a, b) == IF a < b THEN a ELSE b

\* partition, not partition_all: a short last chunk is dropped, which is
\* from_sequence gone wrong.
from_sequence_drop_short(seq, partition_size) ==
    IF Len(seq) < partition_size THEN << <<>> >>
    ELSE [i \in 1..(Len(seq) \div partition_size) |->
            SubSeq(seq, (i - 1) * partition_size + 1, i * partition_size)]

\* db.from_sequence(seq, partition_size): chunks of partition_size, the last
\* one shorter; an empty sequence gives one empty partition.
from_sequence(seq, partition_size) ==
    IF seq = <<>> THEN << <<>> >>
    ELSE [i \in 1..((Len(seq) + partition_size - 1) \div partition_size) |->
            SubSeq(seq, (i - 1) * partition_size + 1,
                   Min(i * partition_size, Len(seq)))]

FixedColumns == <<"archive", "key", "type", "major", "minor", "make_fail">>

\* run_rule's meta: the sorted check names, then the fixed columns.
MetaColumns(rule) ==
    LET names == {c.name : c \in Range(DepsOf(rule))}
        IsName(n) == n \in names
    IN SelectSeq(ColumnOrder, IsName) \o FixedColumns

MetaDtype(col) ==
    CASE col \in {"archive", "key", "type"} -> "str"
      [] col \in {"major", "minor"} -> "Int8"
      [] OTHER -> "bool"

\* DataFrame.astype on one cell: bool(None) is False, str(None) is 'None'.
AsType(col, v) ==
    CASE col = "archive" -> v
      [] MetaDtype(col) = "Int8" -> v
      [] MetaDtype(col) = "str" -> IF v = None THEN StrNone ELSE v
      [] OTHER -> IF v = PyTrue THEN PyTrue ELSE PyFalse

\* to_dataframe(meta) on one partition: a row per record, typed by meta.
to_dataframe(records, rule) ==
    [i \in 1..Len(records) |->
        [col \in Range(MetaColumns(rule)) |-> AsType(col, records[i][col])]]

\* ------------------------------------------------------------- aggregator
\* DataFrame.sum over a boolean column: the number of its True cells.
ColumnSum(rows, col) ==
    Cardinality({i \in 1..Len(rows) : rows[i][col] = PyTrue})

\* The Jaccard distance, which the name jac_sim suggests, in place of hamming.
jaccard(rows, a, b) ==
    LET either == {i \in 1..Len(rows) : rows[i][a] = PyTrue \/ rows[i][b] = PyTrue}
    IN IF either = {} THEN [num |-> 0, den |-> 1]
       ELSE [num |-> Cardinality({i \in either : rows[i][a] # rows[i][b]}),
             den |-> Cardinality(either)]

\* metric="hamming": the fraction of rows on which two columns disagree.
hamming(rows, a, b) ==
    [num |-> Cardinality({i \in 1..Len(rows) : rows[i][a] # rows[i][b]}),
     den |-> Len(rows)]

\* The distance itself, the "1 -" forgotten: jac_sim gone wrong.
jac_sim_no_complement(rows, a, b) == hamming(rows, a, b)

\* 1 - pairwise_distances(...): one entry of the similarity matrix.
jac_sim(rows, a, b) ==
    [num |-> hamming(rows, a, b).den - hamming(rows, a, b).num,
     den |-> hamming(rows, a, b).den]

AnalysisColumns(rule) ==
    [i \in 1..Len(DepsOf(rule)) |-> DepsOf(rule)[i].name] \o <<"make_fail">>

NoReport == [num_archives |-> -1]

\* analyze: hit_data is the rows of every partition in order.
analyze(rows, rule) ==
    LET cols == AnalysisColumns(rule)
        majors == {rows[i]["major"] : i \in 1..Len(rows)}
        groups == {<<rows[i]["major"], rows[i]["type"], rows[i]["key"]>> : i \in 1..Len(rows)}
    IN IF Len(rows) = 0
       THEN \* pairwise_distances refuses an array of zero features
            [raised |-> "ValueError", results |-> NoReport]
       ELSE [raised |-> None,
             results |->
               [num_archives |-> Len(rows),
                num_archives_by_rhel |->
                    [m \in majors |-> Cardinality({i \in 1..Len(rows) : rows[i]["major"] = m})],
                hits_by_rhel |->
                    [c \in Range(cols) |->
                        [m \in majors |->
                            LET InGroup(r) == r["major"] = m
                            IN ColumnSum(SelectSeq(rows, InGroup), c)]],
                hits_by_vtk |->
                    {[major |-> g[1], type |-> g[2], key |-> g[3],
                      counts |-> Cardinality({i \in 1..Len(rows) :
                                    <<rows[i]["major"], rows[i]["type"], rows[i]["key"]>> = g})]
                     : g \in groups},
                grand_totals |-> [c \in Range(cols) |-> ColumnSum(rows, c)],
                similarity |->
                    [i \in 1..Len(cols) |->
                        [c \in Range(cols) |-> jac_sim(rows, cols[i], c)]]]]

\* ------------------------------------------------------ Spec: one run
Registry == {RedHatRelease, Uname, CondX, CondY, IncZ, SharedX, Rule1, Rule2, Rule3}

\* dr.get_component(name): the component of that name, or None when the
\* name is None or cannot be imported.
get_component(name) ==
    IF \E c \in Registry : get_name(c) = name
    THEN CHOOSE c \in Registry : get_name(c) = name
    ELSE NoComponent

AbsentPlugin == <<>>
PluginArgs ==
    {AbsentPlugin, <<"no.such", "thing">>, get_name(Uname), get_name(Rule1), get_name(Rule2)}

Letters == <<"a", "b", "c", "d", "e", "f">>
ArchiveName(i) == <<Letters[i], ".", "t", "a", "r">>

\* The input file that lists the first n archives, one per line.
InputFile(n) == Flatten([i \in 1..n |-> ArchiveName(i) \o <<NL>>])

CheckValues == {None, PyFalse, PyTrue}
MakeFail == [type |-> "make_fail", key |-> "K"]
MakePass == [type |-> "make_pass", key |-> "K"]
RuleResults == {NoResult, MakeFail}
Releases == {NoRelease, [present |-> TRUE, major |-> 8, minor |-> 1]}

ExtractFails(bool_deps) ==
    [raises |-> TRUE, checks |-> [c \in Range(bool_deps) |-> None],
     rule_result |-> NoResult, rhr |-> NoRelease]

\* What extracting and running one archive can give.
Outcomes(bool_deps) ==
    {ExtractFails(bool_deps)} \cup
    [raises : {FALSE}, checks : [Range(bool_deps) -> CheckValues],
     rule_result : RuleResults, rhr : Releases]

PartSizes == (1..MaxPartSize) \cup {DefaultPartSize}

NoTasks == <<>>

RunIdle ==
    /\ script = "none"
    /\ pc = "done"
    /\ cluster = "none"
    /\ client = "none"
    /\ workers = 0
    /\ plugin = AbsentPlugin
    /\ rule_func = NoComponent
    /\ archives = <<>>
    /\ part_size = DefaultPartSize
    /\ tasks = NoTasks
    /\ report = NoReport
    /\ stdout = <<>>
    /\ exc = None

NoCall == [op |-> "none"]

ProcIdle ==
    /\ role = "none"
    /\ LOADED = FALSE
    /\ DEP_CACHE = EmptyDict
    /\ built = 0
    /\ builds = [r \in Rules |-> [direct |-> 0, cached |-> 0]]
    /\ call = NoCall
    /\ ncalls = 0

LoadIdle ==
    /\ text = <<>>
    /\ loaded = FALSE
    /\ lines = <<>>

Init ==
    /\ script \in {"rule_analysis", "driver"}
    /\ pc = "start"
    /\ cluster = "none"
    /\ client = "none"
    /\ workers = 0
    /\ plugin = AbsentPlugin
    /\ rule_func = NoComponent
    /\ archives = <<>>
    /\ part_size = DefaultPartSize
    /\ tasks = NoTasks
    /\ report = NoReport
    /\ stdout = <<>>
    /\ exc = None
    /\ ProcIdle
    /\ LoadIdle

\* A task: a partition of the archive list, the place in it of the archive
\* that raised (0 when none did), and the partition of the table it produced.
PendingTask(chunk) == [archives |-> chunk, state |-> "pending", failed |-> 0, rows |-> <<>>]

\* The place of the first archive that raises, or 0.
FirstRaise(outs) ==
    IF \E j \in DOMAIN outs : outs[j].raises
    THEN CHOOSE j \in DOMAIN outs : outs[j].raises /\ \A k \in 1..(j - 1) : ~outs[k].raises
    ELSE 0

Raise(e) ==
    /\ exc' = e
    /\ pc' = "with_exit"

\* rule_analysis.py line 173: with Client(n_workers=1, threads_per_worker=1).
\* The client starts a local cluster of its own and owns it.
ClientEnter ==
    /\ script = "rule_analysis" /\ pc = "start"
    /\ client' = "open" /\ cluster' = "open" /\ workers' = 1
    /\ pc' = "main"
    /\ UNCHANGED <<script, plugin, rule_func, archives, part_size, tasks, report,
                   stdout, exc, procVars, loadVars>>

\* main with the return forgotten: the run goes on with what is not a rule.
MainFallsThrough(component) == "load"

\* main lines 160-162: where main goes after the type check.
MainNextAfterCheck(component) ==
    IF ~is_type(component, "rule") THEN "with_exit" ELSE "load"

\* main lines 157-162: parse_args, get_component, the type check.
MainResolveRule ==
    /\ script = "rule_analysis" /\ pc = "main"
    /\ \E p \in PluginArgs :
        /\ plugin' = p
        /\ rule_func' = get_component(p)
        /\ stdout' = IF ~is_type(get_component(p), "rule")
                     THEN <<[kind |-> "not a rule", name |-> get_name(get_component(p))]>>
                     ELSE stdout
        /\ pc' = MainNextAfterCheck(get_component(p))
    /\ UNCHANGED <<script, cluster, client, workers, archives, part_size, tasks,
                   report, exc, procVars, loadVars>>

\* main line 164: load_archives(args.input); open() raises on a bad path.
MainLoadArchives ==
    /\ script = "rule_analysis" /\ pc = "load"
    /\ \E readable \in BOOLEAN, n \in 0..MaxArchives :
        IF readable
        THEN /\ archives' = load_archives(InputFile(n))
             /\ pc' = "run_rule"
             /\ exc' = exc
        ELSE /\ Raise("FileNotFoundError")
             /\ archives' = archives
    /\ UNCHANGED <<script, cluster, client, workers, plugin, rule_func, part_size,
                   tasks, report, stdout, procVars, loadVars>>

\* main line 165, run_rule: the bag is built, nothing runs yet.  main passes
\* no part_size; other callers of run_rule may.
MainRunRule ==
    /\ script = "rule_analysis" /\ pc = "run_rule"
    /\ \E ps \in PartSizes :
        /\ part_size' = ps
        /\ tasks' = [i \in 1..Len(from_sequence(archives, ps)) |->
                        PendingTask(from_sequence(archives, ps)[i])]
    /\ pc' = "persist"
    /\ UNCHANGED <<script, cluster, client, workers, plugin, rule_func, archives,
                   report, stdout, exc, procVars, loadVars>>

\* main line 167: client.persist hands the tasks to the cluster and returns.
MainPersist ==
    /\ script = "rule_analysis" /\ pc = "persist"
    /\ pc' = "analyze"
    /\ UNCHANGED <<script, cluster, client, workers, plugin, rule_func, archives,
                   part_size, tasks, report, stdout, exc, procVars, loadVars>>

\* The worker runs one partition: get_rule_hit_info mapped over its archives,
\* then to_dataframe.  An archive that raises ends the task in error.
RunTask(i) ==
    /\ script = "rule_analysis" /\ pc = "analyze" /\ cluster = "open"
    /\ tasks[i].state = "pending"
    /\ \E outs \in [1..Len(tasks[i].archives) -> Outcomes(DepsOf(rule_func))] :
        tasks' = [tasks EXCEPT ![i] =
            IF FirstRaise(outs) # 0
            THEN [archives |-> tasks[i].archives, state |-> "erred",
                  failed |-> FirstRaise(outs), rows |-> <<>>]
            ELSE [archives |-> tasks[i].archives, state |-> "finished",
                  failed |-> 0,
                  rows |-> to_dataframe(
                      [j \in DOMAIN outs |->
                          HitInfo(tasks[i].archives[j], rule_func, DepsOf(rule_func), outs[j])],
                      rule_func)]]
    /\ UNCHANGED <<script, pc, cluster, client, workers, plugin, rule_func, archives,
                   part_size, report, stdout, exc, procVars, loadVars>>

HitData == Flatten([i \in 1..Len(tasks) |-> tasks[i].rows])

\* main line 168, analyze: the first compute() waits for the tasks and
\* raises what a task raised.
MainAnalyze ==
    /\ script = "rule_analysis" /\ pc = "analyze"
    /\ \/ \E i \in DOMAIN tasks : tasks[i].state = "erred"
       \/ \A i \in DOMAIN tasks : tasks[i].state = "finished"
    /\ IF \E i \in DOMAIN tasks : tasks[i].state = "erred"
       THEN Raise("ExtractError") /\ report' = report
       ELSE IF analyze(HitData, rule_func).raised # None
       THEN Raise(analyze(HitData, rule_func).raised) /\ report' = report
       ELSE /\ report' = analyze(HitData, rule_func).results
            /\ pc' = "print"
            /\ exc' = exc
    /\ UNCHANGED <<script, cluster, client, workers, plugin, rule_func, archives,
                   part_size, tasks, stdout, procVars, loadVars>>

\* main line 169: print(json.dumps(analysis)).
MainPrint ==
    /\ script = "rule_analysis" /\ pc = "print"
    /\ stdout' = Append(stdout, [kind |-> "report", analysis |-> report])
    /\ pc' = "with_exit"
    /\ UNCHANGED <<script, cluster, client, workers, plugin, rule_func, archives,
                   part_size, tasks, report, exc, procVars, loadVars>>

\* rule_analysis.py line 173, leaving the with block, by return or by
\* exception: the client closes, and with it the cluster it started.
ClientExit ==
    /\ script = "rule_analysis" /\ pc = "with_exit"
    /\ client' = "closed" /\ cluster' = "closed"
    /\ pc' = "done"
    /\ UNCHANGED <<script, workers, plugin, rule_func, archives, part_size, tasks,
                   report, stdout, exc, procVars, loadVars>>

\* -------------------------------------------------- driver.py, in the run
DriverWorkers == 4

DriverRest == <<script, plugin, rule_func, archives, part_size, tasks, report, procVars, loadVars>>

\* driver.py line 10: with KubeCluster.from_yaml(...) as cluster.  A
\* provisioning failure ends the run before anything is acquired.
DriverClusterEnter ==
    /\ script = "driver" /\ pc = "start"
    /\ \E ok \in BOOLEAN :
        IF ok
        THEN cluster' = "open" /\ pc' = "scale" /\ exc' = exc
        ELSE cluster' = cluster /\ pc' = "done" /\ exc' = "ProvisioningError"
    /\ UNCHANGED <<client, workers, stdout, DriverRest>>

\* driver.py line 11: cluster.scale(4).
DriverScale ==
    /\ script = "driver" /\ pc = "scale"
    /\ \E ok \in BOOLEAN :
        IF ok
        THEN workers' = DriverWorkers /\ pc' = "client" /\ exc' = exc
        ELSE workers' = workers /\ Raise("ScaleError")
    /\ UNCHANGED <<cluster, client, stdout, DriverRest>>

\* driver.py line 13: client = distributed.Client(cluster), outside any with.
DriverClient ==
    /\ script = "driver" /\ pc = "client"
    /\ \E ok \in BOOLEAN :
        IF ok
        THEN client' = "open" /\ pc' = "compute" /\ exc' = exc
        ELSE client' = client /\ Raise("ConnectError")
    /\ UNCHANGED <<cluster, workers, stdout, DriverRest>>

\* driver.py lines 16-17: the mean of an array of ones is computed and printed.
DriverCompute ==
    /\ script = "driver" /\ pc = "compute"
    /\ \E ok \in BOOLEAN :
        IF ok
        THEN stdout' = Append(stdout, [kind |-> "mean", value |-> "1.0"])
             /\ pc' = "with_exit" /\ exc' = exc
        ELSE stdout' = stdout /\ Raise("ComputeError")
    /\ UNCHANGED <<cluster, client, workers, DriverRest>>

\* driver.py line 10, leaving the with block: the cluster closes.  Nothing
\* closes the client.
DriverClusterExit ==
    /\ script = "driver" /\ pc = "with_exit"
    /\ cluster' = "closed"
    /\ pc' = "done"
    /\ UNCHANGED <<client, workers, stdout, exc, DriverRest>>

Next ==
    \/ ClientEnter
    \/ MainResolveRule
    \/ MainLoadArchives
    \/ MainRunRule
    \/ MainPersist
    \/ \E i \in DOMAIN tasks : RunTask(i)
    \/ MainAnalyze
    \/ MainPrint
    \/ ClientExit
    \/ DriverClusterEnter
    \/ DriverScale
    \/ DriverClient
    \/ DriverCompute
    \/ DriverClusterExit

Spec == Init /\ [][Next]_vars

\* --------------------------------------- SpecProc: one process's caches
\* What _get_deps returns: a graph object built now (id tells two builds of
\* the same graph apart) and the boolean dependencies selected from it.
NewEntry(rule, id) == [graph |-> GraphOf(rule), deps |-> DepsOf(rule), id |-> id]

\* get_deps without the membership test: every call rebuilds and stores.
get_deps_rebuilds(cache, rule, id) == DictSet(cache, rule, NewEntry(rule, id))

\* get_deps: DEP_CACHE after the call; the call returns DEP_CACHE[rule].
get_deps(cache, rule, id) ==
    IF rule \notin DOMAIN cache THEN DictSet(cache, rule, NewEntry(rule, id)) ELSE cache

ProcArchives == {ArchiveName(1), ArchiveName(2)}
ProcCheckValues == {None, "", PyTrue}

ProcOutcomes(bool_deps) ==
    {ExtractFails(bool_deps)} \cup
    [raises : {FALSE}, checks : [Range(bool_deps) -> ProcCheckValues],
     rule_result : RuleResults \cup {MakePass}, rhr : Releases]

InitProc ==
    /\ role \in {"coordinator", "worker"}
    /\ LOADED = FALSE
    /\ DEP_CACHE = EmptyDict
    /\ built = 0
    /\ builds = [r \in Rules |-> [direct |-> 0, cached |-> 0]]
    /\ call = NoCall
    /\ ncalls = 0
    /\ RunIdle
    /\ LoadIdle

\* get_rule_hit_info(archive, rule_name) on a worker: lines 66-93.  The
\* caches are set before the archive is extracted, so they are set also
\* when the extraction raises.
GetRuleHitInfo ==
    /\ role = "worker" /\ ncalls < MaxCalls
    /\ \E archive \in ProcArchives, r \in Rules :
        LET rule == get_component(get_name(r))
            cache == get_deps(DEP_CACHE, rule, built + 1)
        IN \E out \in ProcOutcomes(cache[rule].deps) :
            /\ LOADED' = TRUE
            /\ DEP_CACHE' = cache
            /\ built' = IF cache # DEP_CACHE THEN built + 1 ELSE built
            /\ builds' = IF cache # DEP_CACHE
                         THEN [builds EXCEPT ![rule].cached = @ + 1]
                         ELSE builds
            /\ call' = [op |-> "get_rule_hit_info", archive |-> archive, rule |-> rule,
                        deps |-> cache[rule], out |-> out,
                        result |-> IF out.raises THEN EmptyDict
                                   ELSE HitInfo(archive, rule, cache[rule].deps, out)]
    /\ ncalls' = ncalls + 1
    /\ UNCHANGED <<role, runVars, loadVars>>

\* run_rule on the coordinator: line 97 calls _get_deps, not get_deps.
RunRuleCall ==
    /\ role = "coordinator" /\ ncalls < MaxCalls
    /\ \E r \in Rules :
        /\ builds' = [builds EXCEPT ![r].direct = @ + 1]
        /\ call' = [op |-> "run_rule", rule |-> r, deps |-> NewEntry(r, built + 1)]
    /\ built' = built + 1
    /\ ncalls' = ncalls + 1
    /\ UNCHANGED <<role, LOADED, DEP_CACHE, runVars, loadVars>>

\* analyze on the coordinator, of a table run_rule made: line 125 calls
\* _get_deps again.
AnalyzeCall ==
    /\ role = "coordinator" /\ ncalls < MaxCalls
    /\ \E r \in Rules :
        /\ builds[r].direct > 0
        /\ builds' = [builds EXCEPT ![r].direct = @ + 1]
        /\ call' = [op |-> "analyze", rule |-> r, deps |-> NewEntry(r, built + 1)]
    /\ built' = built + 1
    /\ ncalls' = ncalls + 1
    /\ UNCHANGED <<role, LOADED, DEP_CACHE, runVars, loadVars>>

NextProc == GetRuleHitInfo \/ RunRuleCall \/ AnalyzeCall

SpecProc == InitProc /\ [][NextProc]_vars

\* --------------------------------------------------- SpecLoad: the loader
InitLoad ==
    /\ text \in SeqsUpTo(FileAlphabet, MaxFileLen)
    /\ loaded = FALSE
    /\ lines = <<>>
    /\ RunIdle
    /\ ProcIdle

LoadArchivesCall ==
    /\ ~loaded
    /\ loaded' = TRUE
    /\ lines' = load_archives(text)
    /\ UNCHANGED <<text, runVars, procVars>>

NextLoad == LoadArchivesCall

SpecLoad == InitLoad /\ [][NextLoad]_vars

\* ------------------------------------------------------- claims on Spec
Erred == \E i \in DOMAIN tasks : tasks[i].state = "erred"

\* The map stage was built and main has left analyze.
StageOver ==
    /\ script = "rule_analysis"
    /\ pc \in {"print", "with_exit", "done"}
    /\ tasks # NoTasks

CheckNames == {c.name : c \in Range(DepsOf(rule_func))}

\* C1 as stated: an archive whose evaluation raises still gets one record,
\* with its reference and every check column null, every other archive gets
\* its record, and the run is not aborted.
C1_FailureIsolated ==
    (StageOver /\ Erred) =>
        /\ exc = None
        /\ Len(HitData) = Len(archives)
        /\ \A k \in 1..Len(archives) : HitData[k]["archive"] = archives[k]
        /\ \A i \in DOMAIN tasks :
            tasks[i].state = "erred" =>
                \E k \in 1..Len(HitData) :
                    /\ HitData[k]["archive"] = tasks[i].archives[tasks[i].failed]
                    /\ \A n \in CheckNames : HitData[k][n] = None

\* C2 as stated: on an empty archive list analyze does not raise and returns
\* num_archives = 0, no hits by release and a similarity matrix over the
\* boolean columns with no defined entry.
C2_EmptyInputDefined ==
    (StageOver /\ archives = <<>>) =>
        /\ exc = None
        /\ report.num_archives = 0
        /\ \A c \in DOMAIN report.hits_by_rhel : DOMAIN report.hits_by_rhel[c] = {}
        /\ Len(report.similarity) = Len(AnalysisColumns(rule_func))
        /\ \A i \in DOMAIN report.similarity :
            \A c \in DOMAIN report.similarity[i] : report.similarity[i][c].den = 0

\* C3: the report of a run does not depend on the partition size: the table
\* holds one row per archive in list order whatever the size, the report is
\* the one every other partitioning of these rows gives, and whether there
\* is a report at all depends only on the archives.
C3_PartitionIndependent ==
    StageOver =>
        /\ (report = NoReport) <=> (Erred \/ archives = <<>>)
        /\ report # NoReport =>
            /\ [k \in 1..Len(HitData) |-> HitData[k]["archive"]] = archives
            /\ \A ps \in PartSizes :
                /\ Flatten(from_sequence(archives, ps)) = archives
                /\ report = analyze(Flatten(from_sequence(HitData, ps)), rule_func).results

\* Two archives were analysed one per task.
C3_Witness ==
    /\ StageOver /\ pc = "done"
    /\ part_size = 1 /\ Len(tasks) = 2
    /\ report # NoReport /\ report.num_archives = 2

\* C4: over a non-empty table the similarity matrix has a row per boolean
\* column in the order of the local pull, is symmetric, has 1.0 on the
\* diagonal, and each entry is 1 minus the fraction of rows on which the two
\* columns disagree.
C4_SimilaritySymmetric ==
    (StageOver /\ report # NoReport) =>
        LET cols == AnalysisColumns(rule_func)
            sim == report.similarity
        IN /\ Len(sim) = Len(cols)
           /\ \A i \in 1..Len(cols) :
                /\ DOMAIN sim[i] = Range(cols)
                /\ sim[i][cols[i]].den > 0
                /\ sim[i][cols[i]].num = sim[i][cols[i]].den
                /\ \A j \in 1..Len(cols) :
                    /\ sim[i][cols[j]] = sim[j][cols[i]]
                    /\ sim[i][cols[j]].den = Len(HitData)
                    /\ sim[i][cols[j]].num = Len(HitData) -
                        Cardinality({k \in 1..Len(HitData) :
                            HitData[k][cols[i]] # HitData[k][cols[j]]})

\* A report over two rows in which X and Y agree on one row only.
C4_Witness ==
    /\ StageOver /\ report # NoReport
    /\ rule_func = Rule1
    /\ report.similarity[1]["X"] = [num |-> 1, den |-> 2]
    /\ report.similarity[2]["Y"] = [num |-> 1, den |-> 2]

\* End-to-end scenario 1: a.tar gives X true, Y false, b.tar gives both
\* false, both on release 8.
Scenario1 ==
    /\ StageOver /\ report # NoReport
    /\ rule_func = Rule1
    /\ archives = <<ArchiveName(1), ArchiveName(2)>>
    /\ HitData[1]["X"] = PyTrue /\ HitData[1]["Y"] = PyFalse /\ HitData[1]["major"] = 8
    /\ HitData[2]["X"] = PyFalse /\ HitData[2]["Y"] = PyFalse /\ HitData[2]["major"] = 8

SimilarityOf(a, b) ==
    report.similarity[CHOOSE i \in 1..Len(AnalysisColumns(rule_func)) :
                        AnalysisColumns(rule_func)[i] = a][b]

\* C5 as stated: in scenario 1 the report has num_archives = 2, one hit of X
\* and none of Y on release 8, and the similarity of X and Y is 0.0.
C5_Scenario1AsStated ==
    Scenario1 =>
        /\ report.num_archives = 2
        /\ report.hits_by_rhel["X"][8] = 1
        /\ report.hits_by_rhel["Y"][8] = 0
        /\ SimilarityOf("X", "Y").num = 0

\* C5 amended: in scenario 1 the report has num_archives = 2, one hit of X
\* and none of Y on release 8, and the similarity of X and Y is 0.5: the
\* two columns disagree on one of the two rows.
C5_Scenario1Half ==
    Scenario1 =>
        /\ report.num_archives = 2
        /\ report.hits_by_rhel["X"][8] = 1
        /\ report.hits_by_rhel["Y"][8] = 0
        /\ 2 * SimilarityOf("X", "Y").num = SimilarityOf("X", "Y").den
        /\ SimilarityOf("X", "Y") = SimilarityOf("Y", "X")

\* Scenario 1 ran to the end and its report was printed.
C5_Witness ==
    /\ Scenario1 /\ pc = "done"
    /\ stdout = <<[kind |-> "report", analysis |-> report]>>

\* C8: when --plugin is absent, unresolvable or not a rule, main prints the
\* "is not a rule" diagnostic and returns without raising: it never loads
\* the archive list, builds no task, has no report and prints nothing else.
C8_NotARuleReturnsEarly ==
    (script = "rule_analysis" /\ pc \notin {"start", "main"}
        /\ ~is_type(get_component(plugin), "rule")) =>
        /\ pc \in {"with_exit", "done"}
        /\ exc = None
        /\ stdout = <<[kind |-> "not a rule", name |-> get_name(get_component(plugin))]>>
        /\ archives = <<>>
        /\ tasks = NoTasks
        /\ report = NoReport

\* A run without --plugin ended on the diagnostic.
C8_Witness ==
    /\ script = "rule_analysis" /\ pc = "done"
    /\ plugin = AbsentPlugin
    /\ stdout = <<[kind |-> "not a rule", name |-> <<"None">>]>>
    /\ exc = None

\* C10 as stated: when a run has ended, by return or by exception, neither
\* the cluster nor the client it acquired is still open.
C10_AllReleased ==
    pc = "done" => (cluster # "open" /\ client # "open")

\* ---------------------------------------------------- claims on SpecProc
Returned == call.op = "get_rule_hit_info" /\ ~call.out.raises

\* C6 as stated: the record has exactly one entry per selected check, keyed
\* by the check's name, True or False by the truthiness of its result and
\* null when it has none; beside them the archive reference, the key and the
\* type name of the rule's result (null without one), the make_fail flag,
\* and major and minor of the release, -1 and -1 without one.
C6_OneEntryPerCheck ==
    Returned =>
        LET selected == Range(DepsOf(call.rule))
            res == call.result
            rr == call.out.rule_result
        IN /\ Cardinality(DOMAIN res \ Range(FixedColumns)) = Cardinality(selected)
           /\ \A c \in selected :
                /\ c.name \in DOMAIN res
                /\ res[c.name] =
                    IF call.out.checks[c] = None THEN None
                    ELSE IF Truthy(call.out.checks[c]) THEN PyTrue ELSE PyFalse
           /\ res["archive"] = call.archive
           /\ res["key"] = (IF rr = NoResult THEN None ELSE rr.key)
           /\ res["type"] = (IF rr = NoResult THEN None ELSE rr.type)
           /\ res["make_fail"] = (IF rr \in {MakeFail} THEN PyTrue ELSE PyFalse)
           /\ res["major"] = (IF call.out.rhr.present THEN call.out.rhr.major ELSE -1)
           /\ res["minor"] = (IF call.out.rhr.present THEN call.out.rhr.minor ELSE -1)

\* C9 as stated: the cache holds for a rule the entry get_deps returned, and
\* the graph of a rule is built at most once in the process.
C9_BuiltOncePerProcess ==
    /\ \A r \in DOMAIN DEP_CACHE : DEP_CACHE[r].graph = GraphOf(r)
    /\ call.op = "get_rule_hit_info" => call.deps = DEP_CACHE[call.rule]
    /\ \A r \in Rules : builds[r].direct + builds[r].cached <= 1

CacheSound ==
    /\ \A r \in DOMAIN DEP_CACHE :
        /\ r \in Rules
        /\ DEP_CACHE[r].graph = GraphOf(r)
        /\ DEP_CACHE[r].deps = DepsOf(r)
        /\ builds[r].cached = 1
    /\ \A r \in Rules \ DOMAIN DEP_CACHE : builds[r].cached = 0
    /\ call.op = "get_rule_hit_info" => call.deps = DEP_CACHE[call.rule]

CacheKept ==
    \A r \in DOMAIN DEP_CACHE :
        /\ r \in DOMAIN DEP_CACHE'
        /\ DEP_CACHE'[r] = DEP_CACHE[r]

\* C9 amended: get_deps builds the graph of a rule at most once in a
\* process and returns on every later call the identical entry the first
\* call stored, under the rule function as key; an entry once stored is never
\* changed or removed.  (run_rule and analyze call _get_deps themselves and
\* build the graph again, outside the cache.)
C9_CacheStable == [](CacheSound) /\ [][CacheKept]_vars

\* A worker resolved the same rule again and got the entry of the first call.
C9_Witness ==
    /\ role = "worker" /\ ncalls >= 2 /\ built = 1
    /\ call.op = "get_rule_hit_info"
    /\ call.deps.id = 1
    /\ builds[call.rule].cached = 1

\* ---------------------------------------------------------- claim C7
RECURSIVE Visible(_)
Visible(s) ==
    IF s = <<>> THEN <<>>
    ELSE (IF Head(s) \in Whitespace THEN <<>> ELSE <<Head(s)>>) \o Visible(Tail(s))

NumBreaks(s) == Cardinality({i \in 1..Len(s) : s[i] = NL})

NumLines(s) ==
    NumBreaks(s) + (IF s # <<>> /\ s[Len(s)] # NL THEN 1 ELSE 0)

\* C7 as stated: load_archives returns non-empty trimmed lines in file
\* order: no element is empty, none has whitespace at either end, and the
\* visible characters come in the order of the file.
C7_NonEmptyTrimmed ==
    loaded =>
        /\ \A i \in 1..Len(lines) :
            /\ lines[i] # <<>>
            /\ lines[i][1] \notin Whitespace
            /\ lines[i][Len(lines[i])] \notin Whitespace
        /\ Visible(Flatten(lines)) = Visible(text)

\* C7 amended: load_archives returns one element per line of the file, in
\* file order, each the line without its trailing whitespace (line break
\* included); a blank line gives an empty element and leading whitespace
\* stays.
C7_RightStrippedLines ==
    loaded =>
        /\ Len(lines) = NumLines(text)
        /\ \A i \in 1..Len(lines) :
            /\ lines[i] = <<>> \/ lines[i][Len(lines[i])] \notin Whitespace
            /\ lines[i] = SubSeq(FileLines(text)[i], 1, Len(lines[i]))
            /\ \A j \in (Len(lines[i]) + 1)..Len(FileLines(text)[i]) :
                FileLines(text)[i][j] \in Whitespace
        /\ Visible(Flatten(lines)) = Visible(text)

\* A file with a blank line and a line with leading whitespace was loaded.
C7_Witness ==
    /\ loaded
    /\ text = <<NL, " ", "a", NL>>
    /\ lines = << <<>>, <<" ", "a">> >>

====
